---- MODULE Spec2Model ----
(***************************************************************************)
(* Candidate discovery and qualification pipeline of influencer_inviteai.  *)
(*                                                                         *)
(* Modelled from src/src/influencer_inviteai/collector.py                  *)
(* (YouTubeCollector and the __main__ orchestrator) and                    *)
(* src/src/influencer_inviteai/brand_matcher.py (run_brand_matching).      *)
(*                                                                         *)
(* One orchestrator submits one search_channels session per keyword to a   *)
(* thread pool.  A session pages through the discovery search, reads the   *)
(* batch channel-info response item by item, runs the filter chain and     *)
(* deep_analyze_channel on each item, upserts the profile of a qualified   *)
(* channel and appends it to its own result list.  The orchestrator takes  *)
(* the sessions' lists in completion order.                                *)
(*                                                                         *)
(* Conventions.  Texts (title, description) are sequences of tokens and    *)
(* `w in text` of the source is "some token is w"; the token " " is white  *)
(* space.  A publishedAt is the age of the upload in whole days at the     *)
(* time of the analysis, with a flag for a text strptime rejects.  Scores   *)
(* are kept in hundredths, upload cycles in tenths.  A response item is a  *)
(* record that may lack fields, as the source's dicts may lack keys.  A    *)
(* result list holds the _id of each (profile, videos) pair appended.      *)
(***************************************************************************)
EXTENDS Integers, Sequences, FiniteSets, TLC

\* ------------------------------------------------------------------ bounds
NumChannels == 2     \* channels the discovery search can surface
MaxPageLen == 2      \* items of one batch channel-info response

\* ------------------------------------------------------- program constants
MAX_WORKERS == 3
max_attempts == 20
MIN_SUBSCRIBERS == 1000
MIN_VIDEOS == 5
DORMANT_DAYS == 365
PENALTY_DAYS == 180
DEFAULT_INTERVAL == 30
CONTEXT_BONUS == 10

\* limit=3 at both call sites of search_channels
LIMIT == 3

None == "None"
\* SECONDARY_KEYWORDS of __main__ holds three keywords, secondary_kws of
\* run_brand_matching up to three.  The list of the model holds one more than
\* the pool has workers; the runs that follow the sessions step by step take
\* the first one or two of them.
SECONDARY_KEYWORDS == <<"fashion", "fitness", "parenting", "travel">>
KW == {SECONDARY_KEYWORDS[i] : i \in 1 .. Len(SECONDARY_KEYWORDS)}
\* position of keyword k in the submission order
Pos(k) == CHOOSE i \in 1 .. Len(SECONDARY_KEYWORDS) : SECONDARY_KEYWORDS[i] = k
ChannelIds == 1 .. NumChannels

BLACKLIST == {"gambling", "coin", "stock", "politics", "crypto", "toto",
              "holdem", "casino", "FX", "adult", "19+"}
PRIMARY_KEYWORD == "clothing"

VARIABLES
    keywords,            \* the keywords handed to the orchestrator
    YOUTUBE_API_KEY,     \* the environment holds an API key
    MONGO_URI,           \* the environment names a database
    server_pages,        \* pages the discovery server holds for a query
    orch,                \* orchestrator position
    order,               \* futures in the order as_completed yielded them
    all_qualified_data,  \* the aggregate (profile ids)
    pc,                  \* per keyword: position of its worker
    db,                  \* per keyword: the collector holds a db handle
    attempts,            \* per keyword: search calls issued
    next_page_token,     \* per keyword: cursor (0 is None)
    resp_token,          \* per keyword: nextPageToken of the page in hand
    page,                \* per keyword: ids of the channel-info items not yet read
    results,             \* per keyword: ids of the profiles qualified
    analyzed,            \* per keyword: analyzed_channel (None or a profile)
    saved,               \* per keyword: what save_to_mongo returned
    exit,                \* per keyword: why the paging loop ended
    store,               \* the influencers collection: a set of documents
    filter_passes,       \* per channel id: times it entered the filter chain (0, 1, 2 = more)
    journal,             \* per keyword: what the session did so far (history)
    \* one pass of the body of the for loop of search_channels, call by call
    candidate,           \* the item, the context keyword and the responses it will get
    step,                \* position of the pass ("idle": none is followed)
    calls,               \* the deep-analysis calls issued for the candidate
    verdict              \* what the pass made of the candidate

\* the runs of the sessions
sessions == <<keywords, YOUTUBE_API_KEY, MONGO_URI, server_pages, orch, order,
              all_qualified_data, pc, db, attempts, next_page_token, resp_token, page,
              results, analyzed, saved, exit, filter_passes, journal>>

\* the pass followed call by call
evaluation == <<candidate, step, calls, verdict>>

vars == <<sessions, store, evaluation>>

\* ----------------------------------------------------------------- helpers
Min(S) == CHOOSE x \in S : \A y \in S : x <= y
Max(S) == CHOOSE x \in S : \A y \in S : x >= y

RECURSIVE SumSeq(_)
SumSeq(q) == IF q = <<>> THEN 0 ELSE Head(q) + SumSeq(Tail(q))

\* the sequences of at most n distinct elements of S
SeqsUpTo(S, n) ==
    {q \in UNION {[1 .. k -> S] : k \in 0 .. n} :
        \A i, j \in 1 .. Len(q) : q[i] = q[j] => i = j}

\* round(num / den) for den > 0, num >= 0: of two equally near integers
\* the even one, as round() of a float that holds the halfway value exactly
RoundDiv(num, den) ==
    LET q == num \div den
        r == num % den
    IN  IF 2 * r > den \/ (2 * r = den /\ q % 2 = 1) THEN q + 1 ELSE q

\* `w in text`
Contains(text, w) == \E i \in 1 .. Len(text) : text[i] = w

\* str.strip()
Strip(text) ==
    LET keep == {i \in 1 .. Len(text) : text[i] # " "}
    IN  IF keep = {} THEN <<>> ELSE SubSeq(text, Min(keep), Max(keep))

\* dict.get(key, default)
Get(d, key, default) == IF key \in DOMAIN d THEN d[key] ELSE default

\* ------------------------------------------------ external responses drawn
\* One item of the batch channel-info response for channel c (channels.list,
\* part=snippet,contentDetails,statistics), flattened.
GoodItem(c) ==
    [id |-> c, title |-> <<"vlog">>, description |-> <<"clothing", " ", "haul">>,
     uploads |-> "UU", subscriberCount |-> 5000, videoCount |-> 10]

ChannelItems(c) ==
    { GoodItem(c),
      [GoodItem(c) EXCEPT !.description = <<"casino", " ", "tips">>,
                          !.subscriberCount = 1000000],
      [GoodItem(c) EXCEPT !.subscriberCount = 999],
      [GoodItem(c) EXCEPT !.videoCount = 4],
      [GoodItem(c) EXCEPT !.description = <<" ">>],
      [GoodItem(c) EXCEPT !.uploads = ""],
      \* no contentDetails.relatedPlaylists.uploads
      [id |-> c, title |-> <<"vlog">>, description |-> <<"haul">>,
       subscriberCount |-> 5000, videoCount |-> 10],
      \* no snippet.description
      [id |-> c, title |-> <<"vlog">>, uploads |-> "UU",
       subscriberCount |-> 5000, videoCount |-> 10] }

\* One item of a playlistItems.list response.  publishedAt is the age of the
\* upload in days; parses says whether strptime accepts the text.
Video(id, word, age) ==
    [videoId |-> id, title |-> <<word>>, publishedAt |-> age, parses |-> TRUE]

\* Responses of playlistItems.list: ok is FALSE when the call raises.
FeedResponses ==
    { [ok |-> FALSE, items |-> <<>>],
      [ok |-> TRUE, items |-> <<>>],
      [ok |-> TRUE, items |-> << Video("v1", "haul", 2), Video("v2", "look", 8) >>],
      [ok |-> TRUE, items |-> << Video("v1", "haul", 200) >>],
      [ok |-> TRUE, items |-> << Video("v1", "haul", 400) >>],
      [ok |-> TRUE, items |-> << [Video("v1", "haul", 2) EXCEPT !.parses = FALSE] >>] }

\* Responses of videos.list: ok is FALSE when the call raises.
StatsResponses ==
    { [ok |-> FALSE, items |-> {}],
      [ok |-> TRUE, items |-> {}],
      [ok |-> TRUE, items |-> { [id |-> "v1", viewCount |-> 150],
                                [id |-> "v2", viewCount |-> 150] }],
      [ok |-> TRUE, items |-> { [id |-> "v1", viewCount |-> 150] }],
      [ok |-> TRUE, items |-> { [id |-> "v1", viewCount |-> 50],
                                [id |-> "v2", viewCount |-> 50] }] }

\* ------------------------------------------------------- float arithmetic
\* The source computes avg_views, engagement_rate and final_score in Python
\* floats (IEEE 754 binary64, round to nearest, ties to even).  A positive
\* float is [m, e]: m the six base-1024 digits ("limbs", most significant
\* first) of its 53-bit significand M, 2^52 <= M < 2^53, and e the exponent
\* of its leading bit; its value is M * 2^(e - 52).  0.0 is ZeroFloat.  The
\* values met are far from the subnormal and the overflow range.
\* The sequence f with its elements evaluated once (a function constructor
\* is evaluated again at every application).
Tuple(f) == SubSeq(f, 1, Len(f))

Zeros(n) == Tuple([i \in 1 .. n |-> 0])

ZeroFloat == [m |-> Zeros(6), e |-> 0]

\* 2^j, 0 <= j <= 10
Pow2(j) == <<1, 2, 4, 8, 16, 32, 64, 128, 256, 512, 1024>>[j + 1]

\* the limbs of n >= 0 (<<>> for 0)
RECURSIVE Limbs(_)
Limbs(n) == IF n = 0 THEN <<>> ELSE Append(Limbs(n \div 1024), n % 1024)

\* the number whose limbs are x
RECURSIVE IntOfLimbs(_)
IntOfLimbs(x) ==
    IF x = <<>> THEN 0 ELSE 1024 * IntOfLimbs(SubSeq(x, 1, Len(x) - 1)) + x[Len(x)]

\* x without its leading zero limbs
StripZeros(x) ==
    LET nz == {i \in 1 .. Len(x) : x[i] # 0}
    IN  IF nz = {} THEN <<>> ELSE SubSeq(x, Min(nz), Len(x))

\* the number of binary digits of x (x[1] # 0)
BitLen(x) == Cardinality({j \in 0 .. 9 : Pow2(j) <= x[1]}) + 10 * (Len(x) - 1)

\* One step of carrying on a string of numbers y[i] >= 0 that stand for the
\* sum of y[i] * 1024^(Len(y) - i): each keeps its last limb and takes the
\* rest of its right neighbour.  The string grows by one at the left.
CarryStep(y) ==
    Tuple([i \in 1 .. Len(y) + 1 |->
             (IF i = 1 THEN 0 ELSE y[i - 1] % 1024)
             + (IF i = Len(y) + 1 THEN 0 ELSE y[i] \div 1024)])

\* The limbs of the number a string y of numbers 0 <= y[i] <= 1024 stands
\* for: a carry enters i when some y[j] = 1024 at its right is reached
\* through limbs 1023 only.
Ripple(y) ==
    Tuple([i \in 1 .. Len(y) |->
             (y[i] + (IF \E j \in i + 1 .. Len(y) :
                            y[j] = 1024 /\ \A k \in i + 1 .. j - 1 : y[k] = 1023
                      THEN 1 ELSE 0)) % 1024])

\* The limbs of the number a string y of numbers 0 <= y[i] < 2^23 stands
\* for: after three steps of carrying every number is at most 1024.
Normalise(y) == Ripple(CarryStep(CarryStep(CarryStep(y))))

\* x * 2^j for 0 <= j <= 9, one limb longer than x
ShiftLeft(x, j) == CarryStep(Tuple([i \in 1 .. Len(x) |-> x[i] * Pow2(j)]))

\* x + 1
IncLimbs(x) == StripZeros(Ripple(<<0>> \o [x EXCEPT ![Len(x)] = @ + 1]))

\* The integer nearest to N / 1024^a for the number N of limbs y and
\* a >= 1, the even one of two equally near; more says that N stands for a
\* value above N and below N + 1.
RoundLimbs(y, a, more) ==
    LET int  == Zeros(1) \o SubSeq(y, 1, Len(y) - a)
        frac == Zeros(a) \o SubSeq(y, Max({1, Len(y) - a + 1}), Len(y))
        f(i) == frac[Len(frac) - a + i]
        half == f(1) >= 512
        rest == more \/ f(1) % 512 # 0 \/ \E i \in 2 .. a : f(i) # 0
        odd  == int[Len(int)] % 2 = 1
    IN  StripZeros(IF half /\ (rest \/ odd) THEN IncLimbs(int) ELSE int)

\* The integer nearest to N / 2^k for the number N of limbs x and k >= 1
\* (ties and more as in RoundLimbs).
RoundAt(x, k, more) ==
    LET j == (10 - (k % 10)) % 10
    IN  RoundLimbs(ShiftLeft(x, j), (k + j) \div 10, more)

\* the significand m, which rounding may have carried to 2^53, with the
\* exponent e of its leading bit
Renormalise(m, e) ==
    IF m[1] = 8 THEN [m |-> <<4, 0, 0, 0, 0, 0>>, e |-> e + 1]
    ELSE [m |-> m, e |-> e]

\* The float nearest to N * 2^s for the number N > 0 of limbs x (more as
\* in RoundLimbs).
RoundToFloat(x, s, more) ==
    LET p == StripZeros(x) \o Zeros(6)
    IN  Renormalise(RoundAt(p, BitLen(p) - 53, more), s - 60 + BitLen(p) - 1)

\* float(n) for an int n >= 0
FloatOfInt(n) == IF n = 0 THEN ZeroFloat ELSE RoundToFloat(Limbs(n), 0, FALSE)

\* long division of the number of limbs x, from limb i on, by d < 2^21, with
\* rem the remainder so far: the quotient limbs and the last remainder
RECURSIVE DivLimbs(_, _, _, _)
DivLimbs(x, i, d, rem) ==
    IF i > Len(x) THEN [q |-> <<>>, r |-> rem]
    ELSE LET t    == 1024 * rem + x[i]
             rest == DivLimbs(x, i + 1, d, t % d)
         IN  [q |-> <<t \div d>> \o rest.q, r |-> rest.r]

\* x / d for a float x and an int 1 <= d < 2^21 (float / int: the int is
\* converted exactly, the quotient rounded once)
FloatDiv(x, d) ==
    IF x = ZeroFloat THEN ZeroFloat
    ELSE LET r == DivLimbs(x.m \o Zeros(3), 1, d, 0)
         IN  RoundToFloat(r.q, x.e - 82, r.r # 0)

\* the exact product of two floats: the number of limbs n times 2^s; the
\* column c of the product holds the a[i] * b[j] with i + j = c + 1
ExactProduct(x, y) ==
    LET a == x.m
        b == y.m
        columns == Tuple([c \in 1 .. 11 |->
                      SumSeq(Tuple([i \in 1 .. 6 |->
                                IF c + 1 - i \in 1 .. 6 THEN a[i] * b[c + 1 - i] ELSE 0]))])
    IN  [n |-> Normalise(columns), s |-> x.e + y.e - 104]

\* the float nearest to the product p
RoundProduct(p) == RoundToFloat(p.n, p.s, FALSE)

\* x * y
FloatMul(x, y) ==
    IF x = ZeroFloat \/ y = ZeroFloat THEN ZeroFloat
    ELSE RoundProduct(ExactProduct(x, y))

\* the integer nearest to the product p, which is below 2^31
IntOfProduct(p) == IntOfLimbs(RoundAt(p.n, 0 - p.s, FALSE))

\* round(x, 2) in hundredths for x < 2^24: the integer nearest to the exact
\* x * 100, the even one when x * 100 lies halfway (CPython rounds the
\* exact value of x)
RoundHundredths(x) ==
    IF x = ZeroFloat THEN 0
    ELSE IntOfProduct(ExactProduct(x, FloatOfInt(100)))

\* x < 2.0
FloatBelow2(x) == x = ZeroFloat \/ x.e < 1

\* ------------------------------------------------------------ pure functions
\* analyzed_channel is None: the id of no channel
NoProfile == [_id |-> 0]

\* search_channels, lines 418-433: the subscripts that raise KeyError.
HasChannelFields(item) == {"title", "description", "uploads"} \subseteq DOMAIN item

\* search_channels, lines 418-449: channel_info with the context bonus.
ChannelInfo(item, context_keyword) ==
    LET full_text == item.title \o <<" ">> \o item.description
    IN  [_id |-> item.id,
         title |-> item.title,
         description |-> item.description,
         \* re.findall of an address: no text drawn holds one
         email |-> None,
         uploads_playlist_id |-> item.uploads,
         stats |-> [subscribers |-> Get(item, "subscriberCount", 0),
                    video_count |-> Get(item, "videoCount", 0)],
         inma_score |-> IF context_keyword # None /\ Contains(full_text, context_keyword)
                        THEN CONTEXT_BONUS ELSE 0]

\* the hard filters without the blacklist
FilterVerdictNoBlacklist(ci) ==
    IF ci.stats.subscribers < MIN_SUBSCRIBERS THEN "subscribers"
    ELSE IF ci.stats.video_count < MIN_VIDEOS THEN "video_count"
    ELSE IF Strip(ci.description) = <<>> THEN "description"
    ELSE "pass"

\* the floors of the size filter taken as exclusive
FilterVerdictExclusive(ci) ==
    LET full_text == ci.title \o <<" ">> \o ci.description
    IN  IF \E bad_word \in BLACKLIST : Contains(full_text, bad_word) THEN "blacklist"
        ELSE IF ci.stats.subscribers <= MIN_SUBSCRIBERS THEN "subscribers"
        ELSE IF ci.stats.video_count <= MIN_VIDEOS THEN "video_count"
        ELSE IF Strip(ci.description) = <<>> THEN "description"
        ELSE "pass"

\* search_channels, lines 435-460: the hard filters, in the order of the code.
FilterVerdict(ci) ==
    LET full_text == ci.title \o <<" ">> \o ci.description
    IN  IF \E bad_word \in BLACKLIST : Contains(full_text, bad_word) THEN "blacklist"
        ELSE IF ci.stats.subscribers < MIN_SUBSCRIBERS THEN "subscribers"
        ELSE IF ci.stats.video_count < MIN_VIDEOS THEN "video_count"
        ELSE IF Strip(ci.description) = <<>> THEN "description"
        ELSE "pass"

\* get_recent_videos: [] when the call raised.
get_recent_videos(feed) == IF feed.ok THEN feed.items ELSE <<>>

\* _fetch_video_stats: the ids the response holds, with their view counts.
fetch_video_stats(resp) == IF resp.ok THEN resp.items ELSE {}

\* 0.5, 1.0, 1.2, 1.5 as floats, from their tenths
FloatOfTenths(t) == FloatDiv(FloatOfInt(t), 10)

\* a channel idle for a full year is dropped, one idle for half a year
\* penalised
recency_score_inclusive(days_since_upload) ==
    IF days_since_upload >= DORMANT_DAYS THEN 0
    ELSE IF days_since_upload >= PENALTY_DAYS THEN 5 ELSE 10

\* deep_analyze_channel lines 258-264: recency_score in tenths, 0 when the
\* channel is dropped as dormant
recency_score(days_since_upload) ==
    IF days_since_upload > DORMANT_DAYS THEN 0
    ELSE IF days_since_upload > PENALTY_DAYS THEN 5 ELSE 10

\* the multipliers granted below 7 and below 14 days only
consistency_multiplier_exclusive(isum, ilen) ==
    IF isum < 7 * ilen THEN 15
    ELSE IF isum < 14 * ilen THEN 12 ELSE 10

\* deep_analyze_channel lines 310-312: consistency_multiplier in tenths, for
\* avg_interval = isum / ilen
consistency_multiplier(isum, ilen) ==
    IF isum <= 7 * ilen THEN 15
    ELSE IF isum <= 14 * ilen THEN 12 ELSE 10

\* the views are not divided by the number of videos
engagement_rate_per_video(total_views, valid_videos_count, subscribers) ==
    IF subscribers = 0 THEN ZeroFloat
    ELSE FloatMul(FloatDiv(FloatOfInt(total_views), subscribers), FloatOfInt(100))

\* deep_analyze_channel lines 291-298:
\* avg_views = total_views / valid_videos_count
\* engagement_rate = (avg_views / subscribers) * 100, or 0
engagement_rate(total_views, valid_videos_count, subscribers) ==
    IF subscribers = 0 THEN ZeroFloat
    ELSE FloatMul(FloatDiv(FloatDiv(FloatOfInt(total_views), valid_videos_count),
                           subscribers),
                  FloatOfInt(100))

\* the score kept within 0 .. 100 by a remainder
final_score_wrapped(rate, mult10, rec10) ==
    LET h == RoundHundredths(FloatMul(FloatMul(FloatMul(rate, FloatOfInt(10)),
                                               FloatOfTenths(mult10)),
                                      FloatOfTenths(rec10)))
    IN  FloatDiv(FloatOfInt((h % 10000) + 1), 100)

\* deep_analyze_channel line 314:
\* final_score = (engagement_rate * 10) * consistency_multiplier * recency_score
final_score(rate, mult10, rec10) ==
    FloatMul(FloatMul(FloatMul(rate, FloatOfInt(10)), FloatOfTenths(mult10)),
             FloatOfTenths(rec10))

\* every sample counted, one without statistics as a video nobody viewed
count_views_all(videos, stats_map) ==
    LET n        == Len(videos)
        valid    == {i \in 1 .. n : \E st \in stats_map : st.id = videos[i].videoId}
        views(i) == (CHOOSE st \in stats_map : st.id = videos[i].videoId).viewCount
    IN  [total_views |-> SumSeq([i \in 1 .. n |-> IF i \in valid THEN views(i) ELSE 0]),
         valid_videos_count |-> n]

\* deep_analyze_channel lines 278-286: the loop over the sampled videos adds
\* the views of a video and counts it only if stats_map holds its id.
count_views(videos, stats_map) ==
    LET n        == Len(videos)
        valid    == {i \in 1 .. n : \E st \in stats_map : st.id = videos[i].videoId}
        views(i) == (CHOOSE st \in stats_map : st.id = videos[i].videoId).viewCount
    IN  [total_views |-> SumSeq([i \in 1 .. n |-> IF i \in valid THEN views(i) ELSE 0]),
         valid_videos_count |-> Cardinality(valid)]

\* the local variables of deep_analyze_channel before any is assigned
NoLocals ==
    [days_since_upload |-> 0, recency_score |-> 0, isum |-> 0, ilen |-> 0,
     consistency_multiplier |-> 0, total_views |-> 0, valid_videos_count |-> 0,
     engagement_rate |-> ZeroFloat]

\* deep_analyze_channel lines 300-350: the engagement test and the final
\* profile, for the locals so far and engagement_rate = rate.
final_profile(channel_info, videos, locals, rate) ==
    IF FloatBelow2(rate)
    THEN [tag |-> "none", why |-> "engagement", profile |-> NoProfile, raised |-> {},
          locals |-> [locals EXCEPT !.engagement_rate = rate]]
    ELSE [tag |-> "ok", why |-> "", raised |-> {},
          locals |-> [locals EXCEPT !.engagement_rate = rate],
          profile |->
            [_id |-> channel_info._id,
             title |-> channel_info.title,
             description |-> channel_info.description,
             email |-> channel_info.email,
             stats |-> [subscribers |-> channel_info.stats.subscribers,
                        \* int(avg_views)
                        avg_views |-> locals.total_views \div locals.valid_videos_count,
                        \* round(avg_interval, 1) in tenths
                        upload_cycle |-> RoundDiv(locals.isum * 10, locals.ilen)],
             \* the words of the sampled titles (all of two letters or more)
             keywords |-> UNION {{videos[i].title[j] : j \in 1 .. Len(videos[i].title)}
                                   : i \in 1 .. Len(videos)},
             \* round(final_score, 2), in hundredths
             inma_score |-> RoundHundredths(
                                final_score(rate, locals.consistency_multiplier,
                                            locals.recency_score)),
             \* datetime.utcnow() of the analysis: the clock is not modelled
             last_analyzed |-> "utcnow"]]

\* deep_analyze_channel.  tag "none" is the (None, []) return, "error" an
\* exception leaving the function, "ok" a final_profile; raised holds the
\* call that raised inside get_recent_videos or _fetch_video_stats, which
\* catch it and return what they have; locals holds the
\* local variables at the return (consistency_multiplier, which the code
\* assigns after the engagement test, from the intervals on).
deep_analyze_channel(channel_info, feed, stats_resp) ==
    LET videos      == get_recent_videos(feed)
        n           == Len(videos)
        reject      == [tag |-> "none", why |-> "", profile |-> NoProfile,
                        locals |-> NoLocals, raised |-> {}]
    IN
    IF channel_info.uploads_playlist_id = "" THEN [reject EXCEPT !.why = "no_handle"]
    ELSE IF n = 0
        THEN [reject EXCEPT !.why = "no_uploads",
                            !.raised = IF feed.ok THEN {} ELSE {"playlistItems.list"}]
    ELSE IF \E i \in 1 .. n : ~videos[i].parses
        THEN [reject EXCEPT !.tag = "error", !.why = "ValueError"]
    ELSE
    LET days_since_upload == videos[1].publishedAt
        intervals   == [i \in 1 .. n - 1 |-> videos[i + 1].publishedAt - videos[i].publishedAt]
        \* avg_interval = isum / ilen
        isum        == IF n > 1 THEN SumSeq(intervals) ELSE DEFAULT_INTERVAL
        ilen        == IF n > 1 THEN n - 1 ELSE 1
        counts      == count_views(videos, fetch_video_stats(stats_resp))
        total_views == counts.total_views
        valid_videos_count == counts.valid_videos_count
        dated       == [NoLocals EXCEPT !.days_since_upload = days_since_upload,
                                        !.recency_score = recency_score(days_since_upload)]
        counted     == [dated EXCEPT !.isum = isum, !.ilen = ilen,
                                     !.consistency_multiplier =
                                         consistency_multiplier(isum, ilen),
                                     !.total_views = total_views,
                                     !.valid_videos_count = valid_videos_count]
    IN
    IF recency_score(days_since_upload) = 0
        THEN [reject EXCEPT !.why = "dormant", !.locals = dated]
    ELSE IF valid_videos_count = 0
        THEN [reject EXCEPT !.why = "no_stats", !.locals = counted,
                            !.raised = IF stats_resp.ok THEN {} ELSE {"videos.list"}]
    ELSE final_profile(channel_info, videos, counted,
                       engagement_rate(total_views, valid_videos_count,
                                       channel_info.stats.subscribers))

ProfileFields ==
    {"_id", "title", "description", "email", "stats", "keywords", "inma_score",
     "last_analyzed"}

\* update_one as an insert: every write adds a document
update_one_insert(coll, data) == coll \cup {data}

\* save_to_mongo, lines 194-200: update_one({"_id": id}, {"$set": data}, upsert=True)
update_one(coll, data) ==
    IF \E d \in coll : d._id = data._id
    THEN LET d == CHOOSE x \in coll : x._id = data._id
             merged == [f \in (DOMAIN d) \cup (DOMAIN data) |->
                          IF f \in DOMAIN data THEN data[f] ELSE d[f]]
         IN  (coll \ {d}) \cup {merged}
    ELSE coll \cup {data}

StoredIds == {d._id : d \in store}

\* ------------------------------------------------------------------- state
Running == {k \in KW : pc[k] \in {"page", "item", "save", "append"}}

\* the threads of the pool that run no session
IdleWorkers == (1 .. MAX_WORKERS) \ {journal[j].worker : j \in Running}

InitSessions ==
    /\ MONGO_URI \in BOOLEAN
    /\ orch = "init"
    /\ order = <<>>
    /\ all_qualified_data = <<>>
    /\ pc = [k \in KW |-> "unsubmitted"]
    /\ db = [k \in KW |-> FALSE]
    /\ attempts = [k \in KW |-> 0]
    /\ next_page_token = [k \in KW |-> 0]
    /\ resp_token = [k \in KW |-> 0]
    /\ page = [k \in KW |-> <<>>]
    /\ results = [k \in KW |-> <<>>]
    /\ analyzed = [k \in KW |-> NoProfile]
    /\ saved = [k \in KW |-> FALSE]
    /\ exit = [k \in KW |-> None]
    /\ store = {}
    /\ filter_passes = [c \in ChannelIds |-> 0]

\* The journal of a session: the ids of the latest batch channel-info
\* response as it was received; the profiles handed to save_to_mongo, each
\* with the number of the search call whose page held it and its place in
\* the batch response; the number of candidates evaluated, and what was made
\* of the latest one; the pool thread that runs the session (0: none yet).
\* A run that is not journaled keeps NoJournal.
NoJournal ==
    [on |-> FALSE, batch |-> <<>>, handed |-> <<>>, seen |-> 0, why |-> "",
     raised |-> {}, worker |-> 0]

Untraced == journal = [k \in KW |-> NoJournal]

Traced == journal = [k \in KW |-> [NoJournal EXCEPT !.on = TRUE]]

\* the journal once pool thread w took the task of keyword k
Started(k, w) ==
    IF journal[k].on THEN [journal EXCEPT ![k].worker = w] ELSE journal

\* the journal once session k received the batch response p
Received(k, p) ==
    IF journal[k].on THEN [journal EXCEPT ![k].batch = p] ELSE journal

\* the journal once session k made r of a candidate
Evaluated(k, r) ==
    IF journal[k].on
    THEN [journal EXCEPT ![k].seen = @ + 1, ![k].why = r.why, ![k].raised = r.raised]
    ELSE journal

\* the journal once session k handed analyzed_channel to save_to_mongo
Handed(k) ==
    IF journal[k].on
    THEN [journal EXCEPT ![k].handed =
              Append(@, [id |-> analyzed[k]._id, page |-> attempts[k],
                         place |-> Len(journal[k].batch) - Len(page[k])])]
    ELSE journal

\* no pass is followed call by call
NoVerdict ==
    [tag |-> "pending", why |-> "", profile |-> NoProfile, locals |-> NoLocals,
     filtered |-> FALSE, raised |-> {}]

NoCandidate ==
    [item |-> [id |-> 0], context_keyword |-> None,
     feed |-> [ok |-> FALSE, items |-> <<>>], stats_resp |-> [ok |-> FALSE, items |-> {}]]

InitEvaluation ==
    /\ candidate = NoCandidate
    /\ step = "idle"
    /\ calls = <<>>
    /\ verdict = NoVerdict

\* A run over the keywords against a server that holds one page per query.
Init ==
    /\ keywords = {SECONDARY_KEYWORDS[1], SECONDARY_KEYWORDS[2]}
    /\ YOUTUBE_API_KEY = TRUE
    /\ Untraced
    /\ server_pages = 1
    /\ InitSessions
    /\ InitEvaluation

\* A run over one keyword against a server that never runs out of pages.
InitLong ==
    /\ keywords = {SECONDARY_KEYWORDS[1]}
    /\ YOUTUBE_API_KEY = TRUE
    /\ Untraced
    /\ server_pages = max_attempts + 1
    /\ InitSessions
    /\ InitEvaluation

\* A run over one keyword against a server that holds more pages than a
\* session can ask for: every page may carry a cursor.
InitLive ==
    /\ keywords = {SECONDARY_KEYWORDS[1]}
    /\ YOUTUBE_API_KEY = TRUE
    /\ Untraced
    /\ server_pages = max_attempts + 2
    /\ InitSessions
    /\ InitEvaluation

\* ------------------------------------------------------------ orchestrator
\* __main__ line 521 / run_brand_matching line 141: one future per keyword.
Submit ==
    /\ orch = "init"
    /\ orch' = "as_completed"
    /\ pc' = [k \in KW |-> IF k \in keywords THEN "queued" ELSE pc[k]]
    /\ UNCHANGED <<evaluation, journal, keywords, YOUTUBE_API_KEY, MONGO_URI,
                   server_pages, order, all_qualified_data, db, attempts,
                   next_page_token, resp_token, page, results, analyzed, saved, exit, store, filter_passes>>

\* a thread per submitted keyword: the task starts whatever the pool runs
StartWorkerUnbounded(k) ==
    /\ pc[k] = "queued"
    /\ \A j \in KW : Pos(j) < Pos(k) => pc[j] # "queued"
    /\ \/ /\ pc' = [pc EXCEPT ![k] = "failed"]
          /\ UNCHANGED <<db, journal>>
       \/ /\ YOUTUBE_API_KEY
          /\ db' = [db EXCEPT ![k] = MONGO_URI]
          /\ pc' = [pc EXCEPT ![k] = "page"]
          /\ \E w \in 1 .. MAX_WORKERS : journal' = Started(k, w)
    /\ UNCHANGED <<evaluation, keywords, YOUTUBE_API_KEY, MONGO_URI,
                   server_pages, orch, order, all_qualified_data, attempts,
                   next_page_token, resp_token, page, results, analyzed, saved, exit, store, filter_passes>>

\* a collector that is built without an API key
StartWorkerKeyless(k) ==
    /\ pc[k] = "queued"
    /\ \A j \in KW : Pos(j) < Pos(k) => pc[j] # "queued"
    /\ Cardinality(Running) < MAX_WORKERS
    /\ \/ /\ pc' = [pc EXCEPT ![k] = "failed"]
          /\ UNCHANGED <<db, journal>>
       \/ /\ db' = [db EXCEPT ![k] = MONGO_URI]
          /\ pc' = [pc EXCEPT ![k] = "page"]
          /\ \E w \in IdleWorkers : journal' = Started(k, w)
    /\ UNCHANGED <<evaluation, keywords, YOUTUBE_API_KEY, MONGO_URI,
                   server_pages, orch, order, all_qualified_data, attempts,
                   next_page_token, resp_token, page, results, analyzed, saved, exit, store, filter_passes>>

\* process_query lines 514-517 up to the loop of search_channels: a pool
\* thread takes the oldest queued keyword, builds its collector (__init__,
\* lines 25-44) and initialises the session (lines 369-374).
StartWorker(k) ==
    /\ pc[k] = "queued"
    /\ \A j \in KW : Pos(j) < Pos(k) => pc[j] # "queued"
    /\ Cardinality(Running) < MAX_WORKERS
    /\ \/ \* __init__ raises (no YOUTUBE_API_KEY, or build() fails)
          /\ pc' = [pc EXCEPT ![k] = "failed"]
          /\ UNCHANGED <<db, journal>>
       \/ \* the collector is built; self.db is set when MONGO_URI is
          /\ YOUTUBE_API_KEY
          /\ db' = [db EXCEPT ![k] = MONGO_URI]
          /\ pc' = [pc EXCEPT ![k] = "page"]
          /\ \E w \in IdleWorkers : journal' = Started(k, w)
    /\ UNCHANGED <<evaluation, keywords, YOUTUBE_API_KEY, MONGO_URI,
                   server_pages, orch, order, all_qualified_data, attempts,
                   next_page_token, resp_token, page, results, analyzed, saved, exit, store, filter_passes>>

\* the loop test without the page budget
LoopTestNoBudget(k) == Len(results[k]) < LIMIT

\* the loop test off by one
LoopTestInclusive(k) == Len(results[k]) < LIMIT /\ attempts[k] <= max_attempts

\* search_channels line 376: the test of the while loop
LoopTest(k) == Len(results[k]) < LIMIT /\ attempts[k] < max_attempts

\* search_channels lines 376-405: the loop test, the search call and the
\* batch channel-info call of one iteration.  The response of
\* channels.list holds one item per channel.
SearchPage(k) ==
    /\ pc[k] = "page"
    /\ IF ~LoopTest(k)
       THEN \* the while test fails
            /\ pc' = [pc EXCEPT ![k] = "done"]
            /\ exit' = [exit EXCEPT ![k] =
                          IF Len(results[k]) >= LIMIT THEN "limit" ELSE "budget"]
            /\ UNCHANGED <<attempts, resp_token, page, journal>>
       ELSE \* attempts += 1; the counter of the model stops one past the budget
            /\ attempts[k] <= max_attempts
            /\ attempts' = [attempts EXCEPT ![k] = @ + 1]
            /\ \/ \* search().list().execute() raises: except, break
                  /\ pc' = [pc EXCEPT ![k] = "done"]
                  /\ exit' = [exit EXCEPT ![k] = "search_error"]
                  /\ UNCHANGED <<resp_token, page, journal>>
               \/ \E tok \in {0} \cup {t \in {next_page_token[k] + 1} : t < server_pages} :
                  /\ resp_token' = [resp_token EXCEPT ![k] = tok]
                  /\ \/ \* the page has no items (the server holds none): break
                        /\ pc' = [pc EXCEPT ![k] = "done"]
                        /\ exit' = [exit EXCEPT ![k] = "empty"]
                        /\ UNCHANGED <<page, journal>>
                     \/ \* channels().list().execute() raises: except, break
                        /\ server_pages > 0
                        /\ pc' = [pc EXCEPT ![k] = "done"]
                        /\ exit' = [exit EXCEPT ![k] = "channels_error"]
                        /\ UNCHANGED <<page, journal>>
                     \/ \* the items of the batch channel-info response
                        /\ server_pages > 0
                        /\ \E p \in SeqsUpTo(ChannelIds, MaxPageLen) :
                              /\ page' = [page EXCEPT ![k] = p]
                              /\ journal' = Received(k, p)
                        /\ pc' = [pc EXCEPT ![k] = "item"]
                        /\ UNCHANGED exit
    /\ UNCHANGED <<evaluation, keywords, YOUTUBE_API_KEY, MONGO_URI,
                   server_pages, orch, order, all_qualified_data, db,
                   next_page_token, results, analyzed, saved, store, filter_passes>>

\* the test of the for loop off by one
LimitReachedLate(k) == Len(results[k]) > LIMIT

\* search_channels lines 408-409: `if len(results) >= limit: break`
LimitReached(k) == Len(results[k]) >= LIMIT

\* One more pass of channel c through the filter chain.
Passed(c) == [filter_passes EXCEPT ![c] = IF @ < 2 THEN @ + 1 ELSE @]

\* the exception of a candidate leaves search_channels
AbortItemRaise(k) ==
    /\ pc' = [pc EXCEPT ![k] = "failed"]
    /\ exit' = [exit EXCEPT ![k] = "item_error"]
    /\ UNCHANGED analyzed

\* search_channels lines 484-486 reached from inside the for loop.
AbortItem(k) ==
    /\ pc' = [pc EXCEPT ![k] = "done"]
    /\ exit' = [exit EXCEPT ![k] = "item_error"]
    /\ UNCHANGED analyzed

\* a rejected candidate is saved all the same, with what is known of it
RejectItemSaved(k) ==
    /\ analyzed' = [analyzed EXCEPT ![k] = [_id |-> Head(page[k])]]
    /\ pc' = [pc EXCEPT ![k] = "save"]
    /\ UNCHANGED exit

\* a rejected candidate ends the paging
RejectItemBreak(k) ==
    /\ pc' = [pc EXCEPT ![k] = "done"]
    /\ exit' = [exit EXCEPT ![k] = "item_error"]
    /\ UNCHANGED analyzed

\* the `continue` statements and the falsy analyzed_channel
RejectItem(k) ==
    UNCHANGED <<pc, exit, analyzed>>

\* what deep_analyze_channel returned for an item that passed the filter chain
Filtered(r) ==
    [tag |-> r.tag, why |-> r.why, profile |-> r.profile, locals |-> r.locals,
     filtered |-> TRUE, raised |-> r.raised]

\* lines 444-449 with the `else: continue` they comment out: a candidate is
\* dropped when a context keyword is given and its text does not hold it
EvaluateStrict(item, context_keyword, feed, stats_resp) ==
    IF ~HasChannelFields(item)
    THEN [tag |-> "error", why |-> "KeyError", profile |-> NoProfile,
          locals |-> NoLocals, filtered |-> FALSE, raised |-> {}]
    ELSE LET channel_info == ChannelInfo(item, context_keyword)
             v == FilterVerdict(channel_info)
             missing == context_keyword # None /\ channel_info.inma_score = 0
         IN  IF v = "blacklist" \/ missing \/ v # "pass"
             THEN [tag |-> "none",
                   why |-> IF v # "blacklist" /\ missing THEN "context" ELSE v,
                   profile |-> NoProfile, locals |-> NoLocals, filtered |-> TRUE,
                   raised |-> {}]
             ELSE Filtered(deep_analyze_channel(channel_info, feed, stats_resp))

\* search_channels lines 407-468 for one item of the batch response: what
\* the construction of channel_info, the filter chain and
\* deep_analyze_channel make of the item and of the two responses.
\*   tag "error": an exception reaches the except of search_channels
\*   tag "none":  the item is skipped (continue, or a falsy analyzed_channel)
\*   tag "ok":    analyzed_channel is the profile
\* filtered says whether the item entered the filter chain (line 435).
Evaluate(item, context_keyword, feed, stats_resp) ==
    IF ~HasChannelFields(item)
    THEN [tag |-> "error", why |-> "KeyError", profile |-> NoProfile,
          locals |-> NoLocals, filtered |-> FALSE, raised |-> {}]
    ELSE LET channel_info == ChannelInfo(item, context_keyword)
             v == FilterVerdict(channel_info)
         IN  IF v # "pass"
             THEN [tag |-> "none", why |-> v, profile |-> NoProfile,
                   locals |-> NoLocals, filtered |-> TRUE, raised |-> {}]
             ELSE Filtered(deep_analyze_channel(channel_info, feed, stats_resp))

\* The outcomes the responses drawn can give for channel c.
Outcomes ==
    [c \in ChannelIds |->
        { Evaluate(item, PRIMARY_KEYWORD, feed, stats_resp) :
            item \in ChannelItems(c), feed \in FeedResponses,
            stats_resp \in StatsResponses }]

EvaluateCandidate(k) ==
    /\ pc[k] = "item"
    /\ page[k] # <<>>
    /\ ~LimitReached(k)
    /\ page' = [page EXCEPT ![k] = Tail(@)]
    /\ \E r \in Outcomes[Head(page[k])] :
        /\ filter_passes' = IF r.filtered THEN Passed(Head(page[k])) ELSE filter_passes
        /\ journal' = Evaluated(k, r)
        /\ \/ /\ r.tag = "error"
              /\ AbortItem(k)
           \/ /\ r.tag = "none"
              /\ RejectItem(k)
           \/ /\ r.tag = "ok"
              /\ analyzed' = [analyzed EXCEPT ![k] = r.profile]
              /\ pc' = [pc EXCEPT ![k] = "save"]
              /\ UNCHANGED exit
    /\ UNCHANGED <<evaluation, keywords, YOUTUBE_API_KEY, MONGO_URI,
                   server_pages, orch, order, all_qualified_data, db,
                   attempts, next_page_token, resp_token, results, saved, store>>

\* save_to_mongo reporting success without a database
SaveAlwaysTrue(k) ==
    /\ pc[k] = "save"
    /\ saved' = [saved EXCEPT ![k] = TRUE]
    /\ store' = IF db[k] THEN update_one(store, analyzed[k]) ELSE store
    /\ journal' = Handed(k)
    /\ pc' = [pc EXCEPT ![k] = "append"]
    /\ UNCHANGED <<evaluation, keywords, YOUTUBE_API_KEY, MONGO_URI,
                   server_pages, orch, order, all_qualified_data, db,
                   attempts, next_page_token, resp_token, page, results, analyzed,
                   exit, filter_passes>>

\* save_to_mongo("influencers", analyzed_channel), line 472; the value it
\* returns is dropped by the caller.
Save(k) ==
    /\ pc[k] = "save"
    /\ \/ \* self.db is None
          /\ ~db[k]
          /\ saved' = [saved EXCEPT ![k] = FALSE]
          /\ UNCHANGED store
       \/ \* update_one raises
          /\ db[k]
          /\ saved' = [saved EXCEPT ![k] = FALSE]
          /\ UNCHANGED store
       \/ /\ db[k]
          /\ store' = update_one(store, analyzed[k])
          /\ saved' = [saved EXCEPT ![k] = TRUE]
    /\ journal' = Handed(k)
    /\ pc' = [pc EXCEPT ![k] = "append"]
    /\ UNCHANGED <<evaluation, keywords, YOUTUBE_API_KEY, MONGO_URI,
                   server_pages, orch, order, all_qualified_data, db,
                   attempts, next_page_token, resp_token, page, results, analyzed, exit, filter_passes>>

\* the profile put at the head of the result list
AppendResultFront(k) ==
    /\ pc[k] = "append"
    /\ results' = [results EXCEPT ![k] = <<analyzed[k]._id>> \o @]
    /\ analyzed' = [analyzed EXCEPT ![k] = NoProfile]
    /\ saved' = [saved EXCEPT ![k] = FALSE]
    /\ pc' = [pc EXCEPT ![k] = "item"]
    /\ UNCHANGED <<evaluation, journal, keywords, YOUTUBE_API_KEY, MONGO_URI,
                   server_pages, orch, order, all_qualified_data, db,
                   attempts, next_page_token, resp_token, page, exit,
                   store, filter_passes>>

\* results.append((analyzed_channel, analyzed_videos)), line 478
AppendResult(k) ==
    /\ pc[k] = "append"
    /\ results' = [results EXCEPT ![k] = Append(@, analyzed[k]._id)]
    /\ analyzed' = [analyzed EXCEPT ![k] = NoProfile]
    /\ saved' = [saved EXCEPT ![k] = FALSE]
    /\ pc' = [pc EXCEPT ![k] = "item"]
    /\ UNCHANGED <<evaluation, journal, keywords, YOUTUBE_API_KEY, MONGO_URI,
                   server_pages, orch, order, all_qualified_data, db,
                   attempts, next_page_token, resp_token, page, exit,
                   store, filter_passes>>

\* one cursor for all the sessions: the page token kept outside the session
EndPageShared(k) ==
    /\ pc[k] = "item"
    /\ page[k] = <<>> \/ LimitReached(k)
    /\ next_page_token' = [j \in KW |-> resp_token[k]]
    /\ page' = [page EXCEPT ![k] = <<>>]
    /\ IF resp_token[k] = 0
       THEN /\ pc' = [pc EXCEPT ![k] = "done"]
            /\ exit' = [exit EXCEPT ![k] = "no_cursor"]
       ELSE /\ pc' = [pc EXCEPT ![k] = "page"]
            /\ UNCHANGED exit
    /\ UNCHANGED <<evaluation, journal, keywords, YOUTUBE_API_KEY, MONGO_URI,
                   server_pages, orch, order, all_qualified_data, db,
                   attempts, resp_token, results, analyzed, saved,
                   store, filter_passes>>

\* search_channels lines 408-409 and 480-482: the for loop ends (items
\* exhausted, or the target reached) and the cursor is taken over.
EndPage(k) ==
    /\ pc[k] = "item"
    /\ page[k] = <<>> \/ LimitReached(k)
    /\ next_page_token' = [next_page_token EXCEPT ![k] = resp_token[k]]
    /\ page' = [page EXCEPT ![k] = <<>>]
    /\ IF resp_token[k] = 0
       THEN /\ pc' = [pc EXCEPT ![k] = "done"]
            /\ exit' = [exit EXCEPT ![k] = "no_cursor"]
       ELSE /\ pc' = [pc EXCEPT ![k] = "page"]
            /\ UNCHANGED exit
    /\ UNCHANGED <<evaluation, journal, keywords, YOUTUBE_API_KEY, MONGO_URI,
                   server_pages, orch, order, all_qualified_data, db,
                   attempts, resp_token, results, analyzed, saved,
                   store, filter_passes>>

\* the loop over as_completed without its try/except: the exception of a
\* failed future leaves the loop
CollectUncaught(k) ==
    /\ orch = "as_completed"
    /\ k \in keywords
    /\ \A i \in 1 .. Len(order) : order[i] # k
    /\ pc[k] \in {"done", "failed"}
    /\ order' = Append(order, k)
    /\ all_qualified_data' = IF pc[k] = "done"
                             THEN all_qualified_data \o results[k]
                             ELSE all_qualified_data
    /\ orch' = IF pc[k] = "failed" THEN "joined" ELSE orch
    /\ UNCHANGED <<evaluation, journal, keywords, YOUTUBE_API_KEY, MONGO_URI,
                   server_pages, pc, db, attempts, next_page_token,
                   resp_token, page, results, analyzed, saved, exit,
                   store, filter_passes>>

\* the aggregate assigned, not extended: the list of the future replaces it
CollectOverwriting(k) ==
    /\ orch = "as_completed"
    /\ k \in keywords
    /\ \A i \in 1 .. Len(order) : order[i] # k
    /\ pc[k] \in {"done", "failed"}
    /\ order' = Append(order, k)
    /\ all_qualified_data' = IF pc[k] = "done"
                             THEN results[k]
                             ELSE all_qualified_data
    /\ UNCHANGED <<evaluation, journal, keywords, YOUTUBE_API_KEY, MONGO_URI,
                   server_pages, orch, pc, db, attempts, next_page_token,
                   resp_token, page, results, analyzed, saved, exit,
                   store, filter_passes>>

\* __main__ lines 523-530 / run_brand_matching lines 143-150: as_completed
\* yields a finished future; its list is added, its exception reported.
Collect(k) ==
    /\ orch = "as_completed"
    /\ k \in keywords
    /\ \A i \in 1 .. Len(order) : order[i] # k
    /\ pc[k] \in {"done", "failed"}
    /\ order' = Append(order, k)
    /\ all_qualified_data' = IF pc[k] = "done"
                             THEN all_qualified_data \o results[k]
                             ELSE all_qualified_data
    /\ UNCHANGED <<evaluation, journal, keywords, YOUTUBE_API_KEY, MONGO_URI,
                   server_pages, orch, pc, db, attempts, next_page_token,
                   resp_token, page, results, analyzed, saved, exit,
                   store, filter_passes>>

\* the aggregate is used after the first future
JoinEarly ==
    /\ orch = "as_completed"
    /\ order # <<>>
    /\ orch' = "joined"
    /\ UNCHANGED <<evaluation, journal, keywords, YOUTUBE_API_KEY, MONGO_URI,
                   server_pages, order, all_qualified_data, pc, db,
                   attempts, next_page_token, resp_token, page, results, analyzed,
                   saved, exit, store, filter_passes>>

\* as_completed is exhausted and the with block is left (shutdown(wait=True)).
Join ==
    /\ orch = "as_completed"
    /\ \A k \in keywords : \E i \in 1 .. Len(order) : order[i] = k
    /\ orch' = "joined"
    /\ UNCHANGED <<evaluation, journal, keywords, YOUTUBE_API_KEY, MONGO_URI,
                   server_pages, order, all_qualified_data, pc, db,
                   attempts, next_page_token, resp_token, page, results, analyzed,
                   saved, exit, store, filter_passes>>

Next ==
    \/ Submit
    \/ \E k \in KW : StartWorker(k)
    \/ \E k \in KW : SearchPage(k)
    \/ \E k \in KW : EvaluateCandidate(k)
    \/ \E k \in KW : Save(k)
    \/ \E k \in KW : AppendResult(k)
    \/ \E k \in KW : EndPage(k)
    \/ \E k \in KW : Collect(k)
    \/ Join

Spec == Init /\ [][Next]_vars

SpecLong == InitLong /\ [][Next]_vars

\* A session runs on a thread of its own (process_query on a pool thread):
\* the thread is scheduled again and again, and each external call it makes
\* returns or raises, so a step of the session that can be taken is taken.
SessionFairness ==
    \A k \in KW :
        /\ WF_vars(SearchPage(k))
        /\ WF_vars(EvaluateCandidate(k))
        /\ WF_vars(Save(k))
        /\ WF_vars(AppendResult(k))
        /\ WF_vars(EndPage(k))

SpecLive == InitLive /\ [][Next]_vars /\ SessionFairness

\* A journaled run over more keywords than the pool has workers, with or
\* without an API key in the environment, against a server that holds
\* nothing for any query: every search returns no items.
InitPool ==
    /\ keywords = KW
    /\ YOUTUBE_API_KEY \in BOOLEAN
    /\ Traced
    /\ server_pages = 0
    /\ InitSessions
    /\ InitEvaluation

\* the steps there are when no page holds an item
NextPool ==
    \/ Submit
    \/ \E k \in KW : StartWorker(k)
    \/ \E k \in KW : SearchPage(k)
    \/ \E k \in KW : Collect(k)
    \/ Join

SpecPool == InitPool /\ [][NextPool]_vars

\* the pages of the server in the runs that follow the cursor
PagedServer == 3

\* A journaled run over one keyword against a server that holds three pages.
InitTraced ==
    /\ keywords = {SECONDARY_KEYWORDS[1]}
    /\ YOUTUBE_API_KEY = TRUE
    /\ Traced
    /\ server_pages = PagedServer
    /\ InitSessions
    /\ InitEvaluation

SpecTraced == InitTraced /\ [][Next]_vars

\* A run over two keywords against a server that holds three pages, with no
\* MONGO_URI in the environment (storage disabled).
InitPaged ==
    /\ keywords = {SECONDARY_KEYWORDS[1], SECONDARY_KEYWORDS[2]}
    /\ YOUTUBE_API_KEY = TRUE
    /\ Untraced
    /\ server_pages = PagedServer
    /\ InitSessions
    /\ MONGO_URI = FALSE
    /\ InitEvaluation

SpecPaged == InitPaged /\ [][Next]_vars

\* ------------------------------------------- one candidate, call by call
\* The items, context keywords and responses one pass of the for loop of
\* search_channels is followed with.
CandidateItems ==
    ChannelItems(1) \cup
    { [GoodItem(1) EXCEPT !.subscriberCount = 1000],
      [GoodItem(1) EXCEPT !.subscriberCount = 1020],
      [GoodItem(1) EXCEPT !.subscriberCount = 10000],
      [GoodItem(1) EXCEPT !.videoCount = 5],
      [GoodItem(1) EXCEPT !.description = <<>>],
      [GoodItem(1) EXCEPT !.description = <<"haul">>],
      [GoodItem(1) EXCEPT !.title = <<"coin">>],
      [GoodItem(1) EXCEPT !.description = <<"casino">>, !.subscriberCount = 999],
      \* statistics without subscriberCount
      [id |-> 1, title |-> <<"vlog">>, description |-> <<"clothing", " ", "haul">>,
       uploads |-> "UU", videoCount |-> 10] }

ContextKeywords == {None, PRIMARY_KEYWORD, SECONDARY_KEYWORDS[2]}

\* a feed of five uploads six days apart, the newest d days old
FiveVideos(d) ==
    [ok |-> TRUE,
     items |-> << Video("v1", "haul", d), Video("v2", "look", d + 6),
                  Video("v3", "haul", d + 12), Video("v4", "look", d + 18),
                  Video("v5", "haul", d + 24) >>]

\* a feed of three uploads, the newest two days old, g and then h days apart
ThreeVideos(g, h) ==
    [ok |-> TRUE,
     items |-> << Video("v1", "haul", 2), Video("v2", "look", 2 + g),
                  Video("v3", "haul", 2 + g + h) >>]

\* feeds whose uploads are on average 7, 7.5, 8, 14, 14.5 and 15 days apart
SpacedFeeds ==
    { ThreeVideos(7, 7), ThreeVideos(7, 8), ThreeVideos(8, 8),
      ThreeVideos(14, 14), ThreeVideos(14, 15), ThreeVideos(15, 15) }

CandidateFeeds ==
    FeedResponses \cup SpacedFeeds \cup
    {FiveVideos(d) : d \in {2, PENALTY_DAYS, PENALTY_DAYS + 1, DORMANT_DAYS, DORMANT_DAYS + 1}}

\* view counts for the five uploads
FiveStats(a, b, c, d, e) ==
    [ok |-> TRUE,
     items |-> { [id |-> "v1", viewCount |-> a], [id |-> "v2", viewCount |-> b],
                 [id |-> "v3", viewCount |-> c], [id |-> "v4", viewCount |-> d],
                 [id |-> "v5", viewCount |-> e] }]

CandidateStats ==
    StatsResponses \cup
    { FiveStats(150, 150, 150, 150, 150), FiveStats(100, 100, 100, 100, 100),
      FiveStats(199, 199, 199, 199, 199), FiveStats(200, 200, 200, 200, 200),
      FiveStats(20, 20, 20, 21, 21) }

Candidates ==
    [item : CandidateItems, context_keyword : ContextKeywords,
     feed : CandidateFeeds, stats_resp : CandidateStats]

\* what search_channels lines 411-468 make of each candidate: a table built
\* once (@@ gives the function by its pairs)
Analysis ==
    [c \in Candidates |-> Evaluate(c.item, c.context_keyword, c.feed, c.stats_resp)]
    @@ << >>

\* One candidate at the head of the for loop, a database that may be there.
InitCandidate ==
    /\ keywords = {}
    /\ YOUTUBE_API_KEY = TRUE
    /\ Untraced
    /\ server_pages = 0
    /\ InitSessions
    /\ candidate \in Candidates
    /\ step = "item"
    /\ calls = <<>>
    /\ verdict = NoVerdict

\* the (None, []) returns of deep_analyze_channel
DeepReturns == {"no_handle", "no_uploads", "dormant", "no_stats", "engagement"}

\* the return of the pass: r is what was made of the candidate
Return(to, r) ==
    /\ step' = to
    /\ verdict' = r

\* search_channels lines 411-460: channel_info is built and the hard filters
\* run; a KeyError leaves the loop, a filter that fails is a `continue`.
\* Here and below r is what the code makes of the candidate and of the
\* responses it gets.
RunFilterChain(r) ==
    /\ step = "item"
    /\ IF r.why = "KeyError" THEN Return("error", r)
       ELSE IF r.tag = "none" /\ r.why \notin DeepReturns THEN Return("rejected", r)
       ELSE step' = "deep" /\ UNCHANGED verdict
    /\ UNCHANGED <<sessions, store, candidate, calls>>

\* deep_analyze_channel lines 243-264: without an uploads playlist nothing is
\* asked; else playlistItems.list is called (get_recent_videos), the dates
\* are parsed and the recency of the first upload listed is tested.
ListFeed(r) ==
    /\ step = "deep"
    /\ IF r.why = "no_handle" THEN Return("rejected", r) /\ UNCHANGED calls
       ELSE /\ calls' = Append(calls, "playlistItems.list")
            /\ IF r.why = "ValueError" THEN Return("error", r)
               ELSE IF r.why \in {"no_uploads", "dormant"} THEN Return("rejected", r)
               ELSE step' = "stats" /\ UNCHANGED verdict
    /\ UNCHANGED <<sessions, store, candidate>>

\* deep_analyze_channel lines 266-303: videos.list is called
\* (_fetch_video_stats), the views are summed and the engagement is tested.
FetchStats(r) ==
    /\ step = "stats"
    /\ calls' = Append(calls, "videos.list")
    /\ IF r.why \in {"no_stats", "engagement"}
       THEN Return("rejected", r)
       ELSE step' = "score" /\ UNCHANGED verdict
    /\ UNCHANGED <<sessions, store, candidate>>

\* deep_analyze_channel lines 305-350: the score and the final profile.
Score(r) ==
    /\ step = "score"
    /\ Return("qualified", r)
    /\ UNCHANGED <<sessions, store, candidate, calls>>

\* search_channels lines 468-478: the profile is handed to save_to_mongo
\* (no database, a write that raises, or the upsert) and appended.
Upsert ==
    /\ step = "qualified"
    /\ \/ UNCHANGED store
       \/ MONGO_URI /\ store' = update_one(store, verdict.profile)
    /\ step' = "appended"
    /\ UNCHANGED <<sessions, candidate, calls, verdict>>

NextCandidate ==
    \/ RunFilterChain(Analysis[candidate])
    \/ ListFeed(Analysis[candidate])
    \/ FetchStats(Analysis[candidate])
    \/ Score(Analysis[candidate])
    \/ Upsert

SpecCandidate == InitCandidate /\ [][NextCandidate]_vars

\* ------------------------------------------------------------------ claims
\* the number of times x occurs in q
Count(q, x) == Cardinality({i \in 1 .. Len(q) : q[i] = x})

Distinct(q) == \A i, j \in 1 .. Len(q) : q[i] = q[j] => i = j

Last(q) == q[Len(q)]

\* the sessions that returned a list
Finished == {k \in keywords : pc[k] = "done"}

\* C1: within one orchestrator run no channel id passes through the filter
\* chain more than once, whichever sessions or pages surface it.
C1_NoChannelFilteredTwice == \A c \in ChannelIds : filter_passes[c] <= 1

\* C2: the store holds at most one profile per channel id, and after every
\* upsert the document of that id is the profile just written while the
\* documents of the other ids are what they were.
C2_Unique == \A d1, d2 \in store : d1._id = d2._id => d1 = d2

C2_LastUpsertWins ==
    \A k \in KW :
        (pc[k] = "save" /\ pc'[k] = "append" /\ saved'[k])
        => /\ {d \in store' : d._id = analyzed[k]._id} = {analyzed[k]}
           /\ {d \in store' : d._id # analyzed[k]._id}
                = {d \in store : d._id # analyzed[k]._id}

\* C2: at most one document per channel id at all times, and every upsert
\* leaves the profile it wrote as the document of its id.
C2_OneProfilePerIdLastWins == []C2_Unique /\ [][C2_LastUpsertWins]_vars

\* C2 witness: a session has just overwritten the profile of a channel that
\* another session had qualified and stored, and the store holds one
\* document of that id, the one just written.
C2_Witness ==
    \E k, j \in KW :
        /\ k # j
        /\ pc[k] = "append" /\ saved[k]
        /\ Count(results[j], analyzed[k]._id) > 0
        /\ {d \in store : d._id = analyzed[k]._id} = {analyzed[k]}

\* C3: the list of profiles one orchestrator run returns holds each channel
\* id at most once.
C3_AggregateDeduplicated == orch = "joined" => Distinct(all_qualified_data)

C4_AppendStep ==
    \A k \in KW :
        results'[k] # results[k]
        => /\ pc[k] = "append"
           /\ results'[k] = Append(results[k], analyzed[k]._id)
           /\ saved[k] => analyzed[k]._id \in StoredIds'

C5_WriteStep ==
    store' # store
    => \E k \in KW :
        /\ pc[k] = "save" /\ pc'[k] = "append"
        /\ DOMAIN analyzed[k] = ProfileFields
        /\ \E r \in Outcomes[analyzed[k]._id] : r.tag = "ok" /\ r.profile = analyzed[k]
        /\ store' = update_one(store, analyzed[k])

\* C5: every document is a complete profile, and every change of the store
\* is the upsert of a profile deep_analyze_channel returned.
C5_OnlyQualifiedProfilesPersisted ==
    /\ [](\A d \in store : DOMAIN d = ProfileFields)
    /\ [][C5_WriteStep]_vars

\* C5 witness: with a database at hand a candidate has passed through the
\* filter chain, no session has qualified anything, and the store is empty.
C5_Witness ==
    /\ MONGO_URI
    /\ \E c \in ChannelIds : filter_passes[c] >= 1
    /\ \A k \in keywords : results[k] = <<>> /\ pc[k] \in {"item", "done"}
    /\ \E k \in keywords : pc[k] = "item" /\ db[k]
    /\ store = {}

\* C6: a failing search or batch channel-info call does not end the session
\* while budget, cursor and target allow more pages.
C6_CallFailureKeepsPaging ==
    \A k \in KW :
        ~ /\ pc[k] = "done"
          /\ \/ exit[k] = "search_error"
             \/ exit[k] = "channels_error" /\ resp_token[k] # 0
          /\ Len(results[k]) < LIMIT
          /\ attempts[k] < max_attempts

\* C7: an item with a missing field is skipped alone; the items after it in
\* the same page are still evaluated.
C7_BadItemSkippedAlone ==
    \A k \in KW : ~(pc[k] = "done" /\ exit[k] = "item_error" /\ page[k] # <<>>)

\* C8: the failure of one keyword's worker leaves its siblings alone: at the
\* join every other session has returned, the aggregate holds every profile
\* of every session that returned, and nothing else.
C8_FailureStep ==
    \A k \in KW :
        (pc[k] # "failed" /\ pc'[k] = "failed")
        => \A j \in KW \ {k} :
              /\ pc'[j] = pc[j]
              /\ results'[j] = results[j]
              /\ pc[j] = "failed" \/ pc'[j] # "failed"

C8_AtJoin ==
    orch = "joined"
    => /\ \A k \in keywords : pc[k] = "failed" \/ pc[k] = "done"
       /\ \A k \in keywords : pc[k] = "failed" => results[k] = <<>>
       /\ \A c \in ChannelIds :
             \A k \in Finished : Count(all_qualified_data, c) >= Count(results[k], c)
       /\ Len(all_qualified_data) = SumSeq([i \in 1 .. Len(order) |->
                                     IF pc[order[i]] = "done" THEN Len(results[order[i]]) ELSE 0])

\* C8: a failing worker changes nothing of its siblings, and the joined
\* aggregate holds the profiles of all sessions that returned and only those.
C8_WorkerFailureIsolated == []C8_AtJoin /\ [][C8_FailureStep]_vars

\* C8 witness: the run is joined, one worker failed, a sibling returned
\* profiles.
C8_Witness ==
    /\ orch = "joined"
    /\ \E k \in keywords : pc[k] = "failed"
    /\ \E k \in keywords : pc[k] = "done" /\ results[k] # <<>>
    /\ all_qualified_data # <<>>

\* the lists of the futures of q, in the order of q
RECURSIVE Flatten(_)
Flatten(q) ==
    IF q = <<>> THEN <<>>
    ELSE (IF pc[Head(q)] = "done" THEN results[Head(q)] ELSE <<>>) \o Flatten(Tail(q))

\* C9: the aggregate is at every moment the concatenation, in completion
\* order, of the lists of the futures taken so far, and when the aggregation
\* ends every keyword's worker has ended and has been taken exactly once.
C9_AggregateIsConcatenation ==
    /\ all_qualified_data = Flatten(order)
    /\ Distinct(order)
    /\ \A i \in 1 .. Len(order) : pc[order[i]] \in {"done", "failed"}
    /\ orch = "joined"
       => /\ {order[i] : i \in 1 .. Len(order)} = keywords
          /\ \A k \in keywords : pc[k] \in {"done", "failed"}

\* C9 witness: the run is joined, both sessions returned profiles, and the
\* futures completed in the reverse of the submission order.
C9_Witness ==
    /\ orch = "joined"
    /\ Len(order) = Cardinality(keywords)
    /\ Len(order) >= 2 /\ order[1] = SECONDARY_KEYWORDS[2]
    /\ \A k \in keywords : pc[k] = "done" /\ results[k] # <<>>

\* C10: a session issues at most max_attempts search calls; it issues one
\* only at the head of the loop, with the target not reached and, after the
\* first, with the cursor of the page before; an empty page, a page without
\* cursor and a reached target each end the session, which then stays done.
C10_SearchStep ==
    \A k \in KW :
        /\ attempts'[k] # attempts[k]
           => /\ attempts'[k] = attempts[k] + 1
              /\ pc[k] = "page"
              /\ attempts[k] < max_attempts
              /\ Len(results[k]) < LIMIT
              /\ attempts[k] = 0 \/ next_page_token[k] # 0
        /\ (pc[k] = "page" /\ Len(results[k]) >= LIMIT /\ pc'[k] # pc[k])
           => pc'[k] = "done"
        /\ (pc[k] = "item" /\ pc'[k] = "page") => resp_token[k] # 0
        /\ (pc[k] = "item" /\ pc'[k] = "done" /\ exit'[k] = "no_cursor")
           => resp_token[k] = 0
        /\ pc[k] = "done" => pc'[k] = "done"

C10_State ==
    \A k \in KW :
        /\ attempts[k] <= max_attempts
        /\ exit[k] \in {"empty", "no_cursor", "limit", "budget"} => pc[k] = "done"
        /\ (pc[k] = "page" /\ attempts[k] > 0) => next_page_token[k] # 0

\* C10: at most max_attempts search calls per session, none after an empty
\* page, a missing cursor or a reached target, each of which ends the session.
C10_SearchCallsBounded == []C10_State /\ [][C10_SearchStep]_vars

\* C10 witness: a session has issued max_attempts search calls, each page
\* with a cursor and without reaching the target, and is done.
C10_Witness ==
    \E k \in KW :
        /\ pc[k] = "done" /\ exit[k] = "budget"
        /\ attempts[k] = max_attempts
        /\ next_page_token[k] # 0
        /\ Len(results[k]) < LIMIT

\* C11: a session never holds more than limit profiles, and once it holds
\* limit profiles nothing more is taken from its page, analysed, saved or
\* appended: the rest of the page is dropped and the session ends.
C11_State ==
    \A k \in KW :
        /\ Len(results[k]) <= LIMIT
        /\ pc[k] \in {"save", "append"} => Len(results[k]) < LIMIT
        /\ (pc[k] = "done" /\ exit[k] = "limit") => Len(results[k]) = LIMIT

C11_Step ==
    /\ \A k \in KW :
          Len(results[k]) >= LIMIT
          => /\ results'[k] = results[k]
             /\ analyzed'[k] = analyzed[k]
             /\ saved'[k] = saved[k]
             /\ page'[k] = page[k] \/ page'[k] = <<>>
             /\ pc'[k] \in {pc[k], "page", "done"}
             /\ attempts'[k] = attempts[k]
    /\ (\A k \in keywords : Len(results[k]) >= LIMIT)
       => store' = store /\ filter_passes' = filter_passes

\* C11: at most limit profiles per session, and no candidate is evaluated or
\* persisted once the target is reached.
C11_AtMostLimitProfiles == []C11_State /\ [][C11_Step]_vars

\* C11 witness: a session has reached the target in the middle of a page:
\* it holds limit profiles and an item of the page is still unread.
C11_Witness ==
    \E k \in KW :
        /\ pc[k] = "item"
        /\ Len(results[k]) = LIMIT
        /\ page[k] # <<>>

\* C12: a session that has started paging ends, whatever the responses: every
\* page carrying a cursor, no candidate ever qualifying, calls failing.
C12_EverySessionReturns == \A k \in KW : (pc[k] = "page") ~> (pc[k] = "done")

\* C12 witness: a session has ended by its page budget alone: every page
\* carried a cursor and nobody qualified.
C12_Witness ==
    \E k \in KW :
        /\ pc[k] = "done" /\ exit[k] = "budget"
        /\ resp_token[k] # 0
        /\ results[k] = <<>>
        /\ store = {}

\* ------------------------------------------ claims about one candidate
\* the pass over the candidate came to its end
Returned == step \in {"rejected", "error", "qualified", "appended"}

\* analyzed_channel is a profile: the candidate qualified
Qualified == step \in {"qualified", "appended"}

\* title + " " + description of the candidate's item
CandidateText ==
    Get(candidate.item, "title", <<>>) \o <<" ">> \o Get(candidate.item, "description", <<>>)

\* the caller supplied a context keyword and the text holds it
ContextMatches ==
    candidate.context_keyword # None /\ Contains(CandidateText, candidate.context_keyword)

\* round(engagement_rate * 10 * consistency_multiplier * recency_score, 2) of
\* the locals of the verdict, in hundredths
ScoreProduct ==
    RoundHundredths(final_score(verdict.locals.engagement_rate,
                                verdict.locals.consistency_multiplier,
                                verdict.locals.recency_score))

\* C13: the inma_score of the profile persisted for a qualifying channel is
\* the product engagement rate * 10 * consistency multiplier * recency score,
\* plus the context bonus of 10 when title + description hold the context
\* keyword, and the product alone when they do not.
C13_ContextBonusInScore ==
    \A d \in store :
        d.inma_score = ScoreProduct + (IF ContextMatches THEN 100 * CONTEXT_BONUS ELSE 0)

CandidateSubscribers == Get(candidate.item, "subscriberCount", 0)

CandidateVideoCount == Get(candidate.item, "videoCount", 0)

\* the description of the candidate's item is empty or whitespace only
CandidateDescriptionBlank ==
    LET description == Get(candidate.item, "description", <<>>)
    IN  \A i \in 1 .. Len(description) : description[i] = " "

\* title + description of the candidate's item hold a denylist term
CandidateBlacklisted == \E bad_word \in BLACKLIST : Contains(CandidateText, bad_word)

\* the candidate was dropped by the size filter
SizeRejected ==
    step = "rejected" /\ verdict.why \in {"subscribers", "video_count", "description"}

\* C15: a candidate that reaches the size filter is rejected by it exactly
\* when subscriberCount < 1000, or videoCount < 5, or the description is
\* empty or whitespace only; a channel with subscriberCount < 1000 never gets
\* past the filters, whatever its other metrics, and one with exactly 1000
\* subscribers is not rejected for its subscribers.
C15_SizeFilterBoundaries ==
    step # "item" =>
        /\ HasChannelFields(candidate.item) /\ ~CandidateBlacklisted =>
              (SizeRejected <=> \/ CandidateSubscribers < 1000
                                \/ CandidateVideoCount < 5
                                \/ CandidateDescriptionBlank)
        /\ CandidateSubscribers < 1000 => step \in {"rejected", "error"}
        /\ CandidateSubscribers = 1000 =>
              ~(step = "rejected" /\ verdict.why = "subscribers")

\* C15 witness: a channel with exactly 1000 subscribers qualified and was
\* appended.
C15_Witness == step = "appended" /\ CandidateSubscribers = 1000

\* the pass reached the engagement test of deep_analyze_channel
EngagementTested ==
    Returned /\ verdict.tag # "error" /\ verdict.locals.valid_videos_count > 0

\* C16: a channel that reaches the engagement test is rejected there exactly
\* when (avg_views / subscribers) * 100 is below 2: with
\* avg_views = total_views / valid_videos_count, exactly when
\* total_views * 100 < 2 * valid_videos_count * subscribers; a rate of
\* exactly 2.00 passes.
C16_EngagementThreshold ==
    EngagementTested =>
        (step = "rejected" /\ verdict.why = "engagement"
            <=> verdict.locals.total_views * 100
                    < 2 * verdict.locals.valid_videos_count * CandidateSubscribers)

\* the uploads listed for the candidate, all with a date that parses
CandidateUploads ==
    IF candidate.feed.ok /\ \A i \in 1 .. Len(candidate.feed.items) :
                                candidate.feed.items[i].parses
    THEN candidate.feed.items ELSE <<>>

\* the pass listed the feed and found uploads in it
RecencyTested ==
    /\ step \in {"stats", "score", "rejected", "qualified", "appended"}
    /\ calls # <<>>
    /\ CandidateUploads # <<>>

Scenario ==
    /\ candidate.item = GoodItem(1)
    /\ candidate.feed = FiveVideos(2)
    /\ candidate.stats_resp = FiveStats(150, 150, 150, 150, 150)

\* C18: the channel of the scenario qualifies with engagement 3.0 %,
\* consistency multiplier 1.5 and recency score 1.0, and the profile handed
\* to the upsert has inma_score 45.0.
C18_ScenarioScore ==
    Scenario =>
        /\ step \notin {"rejected", "error"}
        /\ Qualified =>
              /\ verdict.locals.engagement_rate = FloatOfInt(3)
              /\ verdict.locals.consistency_multiplier = 15
              /\ verdict.locals.recency_score = 10
              /\ verdict.profile.inma_score = 4500
        /\ \A d \in store : d._id = 1 /\ d.inma_score = 4500

\* C18 witness: the profile of the scenario was upserted and appended.
C18_Witness ==
    /\ Scenario
    /\ step = "appended"
    /\ \E d \in store : d.stats.avg_views = 150 /\ d.stats.upload_cycle = 60

\* x <= y for floats that are 0.0 or positive
FloatLeq(x, y) ==
    \/ x = ZeroFloat
    \/ /\ y # ZeroFloat
       /\ \/ x.e < y.e
          \/ /\ x.e = y.e
             /\ \/ x.m = y.m
                \/ \E i \in 1 .. 6 : x.m[i] < y.m[i] /\ \A j \in 1 .. i - 1 : x.m[j] = y.m[j]

\* final_score of the locals at the return of a qualifying pass
FinalScoreOf(locals) ==
    final_score(locals.engagement_rate, locals.consistency_multiplier,
                locals.recency_score)

\* the qualifying candidates' locals, final scores and persisted scores
QualifiedScores ==
    { [locals |-> Analysis[c].locals,
       final_score |-> FinalScoreOf(Analysis[c].locals),
       inma_score |-> Analysis[c].profile.inma_score] :
         c \in {x \in Candidates : Analysis[x].tag = "ok"} }

\* C19: of two qualifying channels with the same consistency multiplier and
\* the same recency score, the one whose engagement rate is higher or equal
\* has a final score that is higher or equal, before and after the rounding
\* to two decimals.
C19_ScoreMonotoneInEngagement ==
    Qualified =>
        LET rivals == {q \in QualifiedScores :
                         /\ q.locals.consistency_multiplier
                                = verdict.locals.consistency_multiplier
                         /\ q.locals.recency_score = verdict.locals.recency_score
                         /\ FloatLeq(verdict.locals.engagement_rate,
                                     q.locals.engagement_rate)}
        IN  \E fs \in {FinalScoreOf(verdict.locals)} :
                \A q \in rivals :
                    /\ FloatLeq(fs, q.final_score)
                    /\ verdict.profile.inma_score <= q.inma_score

\* C19 witness: a channel was appended and another qualifying channel with
\* the same multiplier and recency has a higher rate and a higher score.
C19_Witness ==
    /\ step = "appended"
    /\ \E q \in QualifiedScores :
          /\ q.locals.consistency_multiplier = verdict.locals.consistency_multiplier
          /\ q.locals.recency_score = verdict.locals.recency_score
          /\ ~FloatLeq(q.locals.engagement_rate, verdict.locals.engagement_rate)
          /\ verdict.profile.inma_score < q.inma_score

\* the candidate fails a hard filter: a denylist term in its text, or the
\* size floor
FailsHardFilter ==
    \/ CandidateBlacklisted
    \/ CandidateSubscribers < 1000
    \/ CandidateVideoCount < 5
    \/ CandidateDescriptionBlank

\* C20: a candidate whose title + description hold a denylist term, or that
\* fails the size floor, is dropped at once whatever its statistics: no
\* feed-listing or video-stats call is issued for it and it is never
\* qualified or persisted; deep-analysis calls are issued only for
\* candidates that passed every hard filter.
C20_HardFiltersBeforeDeepAnalysis ==
    /\ FailsHardFilter =>
          /\ step \in {"item", "rejected", "error"}
          /\ calls = <<>>
          /\ verdict.profile = NoProfile
          /\ store = {}
    /\ calls # <<>> => HasChannelFields(candidate.item) /\ ~FailsHardFilter

\* C20 witness: a channel with 1,000,000 subscribers and a denylist term in
\* its description was rejected without any deep-analysis call.
C20_Witness ==
    /\ step = "rejected"
    /\ verdict.why = "blacklist"
    /\ CandidateSubscribers = 1000000
    /\ CandidateBlacklisted
    /\ calls = <<>>

\* the sampled uploads for which the response of videos.list holds statistics
SamplesWithStats ==
    {i \in 1 .. Len(CandidateUploads) :
        /\ candidate.stats_resp.ok
        /\ \E st \in candidate.stats_resp.items : st.id = CandidateUploads[i].videoId}

\* the views the response reports for the samples in S, added up
RECURSIVE ViewsOfSamples(_)
ViewsOfSamples(S) ==
    IF S = {} THEN 0
    ELSE LET i == CHOOSE x \in S : TRUE
             st == CHOOSE x \in candidate.stats_resp.items :
                       x.id = CandidateUploads[i].videoId
         IN  st.viewCount + ViewsOfSamples(S \ {i})

\* the pass asked for the statistics of the samples and went past the sums
StatsTested ==
    /\ step \in {"rejected", "qualified", "appended"}
    /\ calls = <<"playlistItems.list", "videos.list">>

\* C21: a sampled video the statistics response does not hold is left out of
\* the average, which is the views of the samples with statistics divided by
\* their number, and the analysis does not abort; the channel is rejected for
\* lack of statistics exactly when no sample has statistics.
C21_MissingStatsExcluded ==
    StatsTested =>
        /\ (SamplesWithStats = {}) <=> (step = "rejected" /\ verdict.why = "no_stats")
        /\ verdict.locals.valid_videos_count = Cardinality(SamplesWithStats)
        /\ verdict.locals.total_views = ViewsOfSamples(SamplesWithStats)
        /\ Qualified =>
              verdict.profile.stats.avg_views =
                  ViewsOfSamples(SamplesWithStats) \div Cardinality(SamplesWithStats)

\* a channel qualified on the two of its five samples that have statistics
C21_Witness ==
    /\ step = "appended"
    /\ Len(CandidateUploads) = 5
    /\ Cardinality(SamplesWithStats) = 2
    /\ verdict.profile.stats.avg_views = 150

\* the days between each sampled upload and the next older one
CandidateGaps ==
    [i \in 1 .. Len(CandidateUploads) - 1 |->
        CandidateUploads[i + 1].publishedAt - CandidateUploads[i].publishedAt]

\* the pass computed the upload intervals of the candidate
IntervalsComputed ==
    /\ step \in {"rejected", "qualified", "appended"}
    /\ calls = <<"playlistItems.list", "videos.list">>
    /\ CandidateUploads # <<>>

\* C26: avgUploadIntervalDays is the mean of the day gaps between consecutive
\* samples and 30 when there are fewer than two samples; the consistency
\* multiplier is 1.5 when the mean is at most 7, 1.2 when it is at most 14 and
\* 1.0 otherwise (so 1.0 for the default), and it is the multiplier of the
\* score of a channel that qualifies.
C26_IntervalAndMultiplier ==
    IntervalsComputed =>
        LET gaps == CandidateGaps
            n    == Len(gaps)
            \* the mean as a fraction: sum / n, or 30 / 1
            sum  == IF n > 0 THEN SumSeq(gaps) ELSE 30
            len  == IF n > 0 THEN n ELSE 1
            mult == IF sum <= 7 * len THEN 15 ELSE IF sum <= 14 * len THEN 12 ELSE 10
        IN  /\ verdict.locals.isum * len = sum * verdict.locals.ilen
            /\ n = 0 => mult = 10
            /\ Qualified =>
                  /\ verdict.locals.consistency_multiplier = mult
                  /\ verdict.profile.stats.upload_cycle = RoundDiv(sum * 10, len)
                  /\ verdict.profile.inma_score =
                        RoundHundredths(final_score(verdict.locals.engagement_rate, mult,
                                                    verdict.locals.recency_score))

\* a channel whose uploads are exactly seven days apart qualified at 1.5
C26_Witness ==
    /\ step = "appended"
    /\ Len(CandidateGaps) = 2
    /\ SumSeq(CandidateGaps) = 14
    /\ verdict.locals.consistency_multiplier = 15

\* The steps of the filter chain of search_channels, each on the state st of
\* the chain: ci is channel_info and rejected says that a `continue` was taken
\* (the steps after it are not run).
\* lines 435-440: the blacklist check
BlacklistStep(st, context_keyword) ==
    LET full_text == st.ci.title \o <<" ">> \o st.ci.description
    IN  IF st.rejected THEN st
        ELSE [st EXCEPT !.rejected = \E bad_word \in BLACKLIST : Contains(full_text, bad_word)]

\* lines 444-449: the context step adds the bonus and never rejects
ContextStep(st, context_keyword) ==
    LET full_text == st.ci.title \o <<" ">> \o st.ci.description
    IN  IF st.rejected THEN st
        ELSE IF context_keyword # None /\ Contains(full_text, context_keyword)
             THEN [st EXCEPT !.ci.inma_score = @ + CONTEXT_BONUS]
             ELSE st

\* a size check that lets a channel through on its context bonus
SizeStepUnlessBonus(st, context_keyword) ==
    IF st.rejected THEN st
    ELSE [st EXCEPT !.rejected = /\ st.ci.inma_score = 0
                                 /\ \/ st.ci.stats.subscribers < MIN_SUBSCRIBERS
                                    \/ st.ci.stats.video_count < MIN_VIDEOS
                                    \/ Strip(st.ci.description) = <<>>]

\* lines 451-460: the size and description checks
SizeStep(st, context_keyword) ==
    IF st.rejected THEN st
    ELSE [st EXCEPT !.rejected = \/ st.ci.stats.subscribers < MIN_SUBSCRIBERS
                                 \/ st.ci.stats.video_count < MIN_VIDEOS
                                 \/ Strip(st.ci.description) = <<>>]

\* the chain run in the order given
RECURSIVE RunChain(_, _, _)
RunChain(steps, st, context_keyword) ==
    IF steps = <<>> THEN st
    ELSE LET next == IF Head(steps) = "blacklist" THEN BlacklistStep(st, context_keyword)
                     ELSE IF Head(steps) = "context" THEN ContextStep(st, context_keyword)
                     ELSE SizeStep(st, context_keyword)
         IN  RunChain(Tail(steps), next, context_keyword)

\* the order of lines 435-460, and every order of the three steps
CodeOrder == <<"blacklist", "context", "size">>

StepOrders ==
    {o \in [1 .. 3 -> {"blacklist", "context", "size"}] :
        \A i, j \in 1 .. 3 : o[i] = o[j] => i = j}

\* the chain on the candidate, from the channel_info of lines 418-433
ChainOnCandidate(steps) ==
    RunChain(steps,
             [ci |-> [ChannelInfo(candidate.item, None) EXCEPT !.inma_score = 0],
              rejected |-> FALSE],
             candidate.context_keyword)

\* the pass ran the filter chain on the candidate
ChainRun == HasChannelFields(candidate.item) /\ step # "item"

\* C25: whether the filter chain rejects a candidate or passes it on to the
\* deep analysis is the same for every order of the blacklist check, the size
\* and description checks and the context step, and so is the channel_info
\* that is passed on; it is what the chain of the code does.
C25_FilterOrderIrrelevant ==
    ChainRun =>
        \E code \in {ChainOnCandidate(CodeOrder)} :
            /\ \A o \in StepOrders :
                  \E other \in {ChainOnCandidate(o)} :
                      /\ other.rejected = code.rejected
                      /\ ~code.rejected => other = code
            /\ code.rejected <=>
                  /\ step = "rejected"
                  /\ verdict.why \in {"blacklist", "subscribers", "video_count", "description"}
            /\ ~code.rejected =>
                  code.ci = ChannelInfo(candidate.item, candidate.context_keyword)

\* a candidate that fails both the blacklist and the size check was rejected
C25_Witness ==
    /\ step = "rejected"
    /\ verdict.why = "blacklist"
    /\ CandidateSubscribers < MIN_SUBSCRIBERS

\* ------------------------------------------------ claims about the pool
\* session k leaves the queue in this step
Starts(k) == pc[k] = "queued" /\ pc'[k] # "queued"

\* C22: at every moment at most MAX_WORKERS = 3 sessions are in flight,
\* however many keywords were submitted; a keyword leaves the queue only when
\* a worker is idle, and one submitted beyond the limit only after an earlier
\* session has finished; a session stays on the one worker that took it, which
\* runs no other session meanwhile.
C22_PoolBound ==
    /\ [](Cardinality(Running) <= MAX_WORKERS)
    /\ [](\A k \in Running :
              /\ journal[k].worker \in 1 .. MAX_WORKERS
              /\ \A j \in Running \ {k} : journal[j].worker # journal[k].worker)
    /\ [][\A k \in KW :
              /\ Starts(k) =>
                    /\ Cardinality(Running) < MAX_WORKERS
                    /\ Pos(k) > MAX_WORKERS =>
                          \E j \in KW : Pos(j) < Pos(k) /\ pc[j] \in {"done", "failed"}
              /\ journal[k].worker # 0 => journal'[k].worker = journal[k].worker]_vars

\* the fourth keyword is in flight next to two others after one has finished
C22_Witness ==
    /\ Cardinality(keywords) > MAX_WORKERS
    /\ pc[SECONDARY_KEYWORDS[MAX_WORKERS + 1]] = "page"
    /\ Cardinality(Running) = MAX_WORKERS
    /\ \E j \in KW : pc[j] = "done"

\* no collector was built for keyword k and no search call issued for it
NeverRan(k) == pc[k] \in {"unsubmitted", "queued", "failed"} /\ attempts[k] = 0

InPageOrder(h) ==
    \A i, j \in 1 .. Len(h) :
        i < j => \/ h[i].page < h[j].page
                 \/ h[i].page = h[j].page /\ h[i].place < h[j].place

\* C24: within a session the profiles are handed to save_to_mongo and
\* appended to the result list in page order and, within a page, in the order
\* of the batch channel-info response: the result list is the sequence of the
\* upserts, and it only grows at its end.
C24_ProfilesInPageOrder ==
    /\ [](\A k \in KW :
            \E h \in {journal[k].handed} :
                /\ InPageOrder(h)
                /\ Len(h) = Len(results[k]) + (IF pc[k] = "append" THEN 1 ELSE 0)
                /\ \A i \in 1 .. Len(results[k]) : results[k][i] = h[i].id
                /\ \A i \in 1 .. Len(h) :
                      h[i].page = attempts[k] => journal[k].batch[h[i].place] = h[i].id)
    /\ [][\A k \in KW :
            \/ results'[k] = results[k]
            \/ results'[k] = Append(results[k], Last(journal[k].handed).id)]_vars

\* a session returned three profiles, two from one page and the third from
\* a later page
C24_Witness ==
    \E k \in keywords :
        /\ pc[k] = "done"
        /\ Len(results[k]) = 3
        /\ \E h \in {journal[k].handed} :
              /\ h[1].page = h[2].page
              /\ h[1].place < h[2].place
              /\ h[2].page < h[3].page

\* the exits of the paging loop through its except clause
ErrorExits == {"search_error", "channels_error", "item_error"}

\* C27: an exception raised inside the paging loop (by the search call, the
\* batch channel-info call or the processing of a candidate) does not leave
\* the session: the paging stops and the session returns the profiles it
\* qualified before the error, which stay in the result list and in the store.
C27_ErrorEndsPagingKeepsResults ==
    /\ [][\A k \in KW :
            (exit[k] = None /\ exit'[k] \in ErrorExits) =>
                /\ pc'[k] = "done"
                /\ results'[k] = results[k]
                /\ store' = store]_vars
    /\ [][\A k \in KW :
            pc[k] = "done" => pc'[k] = "done" /\ results'[k] = results[k]
                              /\ attempts'[k] = attempts[k]]_vars
    /\ [][\A d \in store : \E e \in store' : e._id = d._id]_vars
    /\ [](\A k \in KW : pc[k] = "done" =>
            /\ Len(results[k]) = Len(journal[k].handed)
            /\ \A i \in 1 .. Len(results[k]) : results[k][i] = journal[k].handed[i].id)

\* on a later page a candidate raised; the session returned the profiles of
\* the earlier page, which are in the store
C27_Witness ==
    \E k \in keywords :
        /\ pc[k] = "done"
        /\ exit[k] = "item_error"
        /\ attempts[k] >= 2
        /\ results[k] # <<>>
        /\ \A i \in 1 .. Len(results[k]) : results[k][i] \in StoredIds

\* session k made something of a candidate in this step
EvaluatedOne(k) == journal'[k].seen = journal[k].seen + 1

\* C28: when the feed-listing call or the batch video-stats call of a
\* candidate raises, the candidate is rejected (as one with no uploads, or
\* with no statistics) and nothing else fails: nothing is persisted or
\* returned for it, and the session stays in the for loop, with the rest of
\* the page and the cursor of the page as they were.
C28_CallFailureRejectsCandidateOnly ==
    [][\A k \in KW :
          (EvaluatedOne(k) /\ journal'[k].raised # {}) =>
              /\ journal'[k].raised = {"playlistItems.list"} => journal'[k].why = "no_uploads"
              /\ journal'[k].raised = {"videos.list"} => journal'[k].why = "no_stats"
              /\ journal'[k].why \in {"no_uploads", "no_stats"}
              /\ pc'[k] = "item" /\ exit'[k] = None
              /\ analyzed'[k] = NoProfile
              /\ journal'[k].handed = journal[k].handed
              /\ store' = store /\ results' = results
              /\ page'[k] = Tail(page[k])
              /\ resp_token'[k] = resp_token[k] /\ attempts'[k] = attempts[k]]_vars

\* the statistics call of a candidate raised; the session holds the next
\* candidate of the page and the cursor of the next page
C28_Witness ==
    \E k \in keywords :
        /\ journal[k].raised = {"videos.list"}
        /\ pc[k] = "item"
        /\ page[k] # <<>>
        /\ resp_token[k] # 0

\* ------------------------------------------------ claims about the cursor
\* session k issues a search call in this step; the call carries
\* next_page_token[k]
Searches(k) == attempts'[k] = attempts[k] + 1

\* C29: the first search call of a session carries no page token and each
\* later one carries the nextPageToken returned by the search call before it
\* in the same session, so that the pages are asked for one after the other,
\* none twice and none skipped; the cursor of a session changes only when
\* that session takes over the token of its own page, and no step of a
\* session touches the cursor of another.
C29_CursorMovesForward ==
    [][\A k \in KW :
          /\ Searches(k) =>
                /\ attempts[k] = 0 => next_page_token[k] = 0
                /\ attempts[k] > 0 => next_page_token[k] # 0
                                      /\ next_page_token[k] = resp_token[k]
                /\ next_page_token[k] = attempts[k]
                /\ exit'[k] # "search_error" =>
                      resp_token'[k] \in {0, next_page_token[k] + 1}
          /\ next_page_token'[k] # next_page_token[k] =>
                /\ pc[k] = "item"
                /\ next_page_token'[k] = resp_token[k]
                /\ \/ next_page_token'[k] = next_page_token[k] + 1
                   \/ next_page_token'[k] = 0 /\ pc'[k] = "done"
                /\ \A j \in KW \ {k} :
                      /\ next_page_token'[j] = next_page_token[j]
                      /\ resp_token'[j] = resp_token[j]
                      /\ pc'[j] = pc[j]]_vars

\* two sessions in flight, one at its third search call and the other at its
\* second, each with the cursor of its own previous page
C29_Witness ==
    \E k, j \in keywords :
        /\ k # j
        /\ pc[k] = "item" /\ attempts[k] = 3 /\ next_page_token[k] = 2
        /\ pc[j] = "item" /\ attempts[j] = 2 /\ next_page_token[j] = 1

\* ---------------------------------------------- claims about the aggregate
\* the times channel c occurs in the lists returned by the futures taken
ReturnedCount(c) ==
    SumSeq([i \in 1 .. Len(order) |->
               IF pc[order[i]] = "done" THEN Count(results[order[i]], c) ELSE 0])

\* C30: the aggregate is written only by the orchestrator, which adds the
\* list of one completed session per step of its loop; no step of a worker
\* changes it, and a worker appends to the result list of its own session
\* only.  Whatever the interleaving, each profile is in the aggregate as many
\* times as the sessions taken so far returned it: none is lost or duplicated.
C30_AggregateOwnedByOrchestrator ==
    /\ [][all_qualified_data' # all_qualified_data =>
            /\ orch = "as_completed"
            /\ \E k \in keywords :
                  /\ pc[k] = "done"
                  /\ order' = Append(order, k)
                  /\ all_qualified_data' = all_qualified_data \o results[k]
            /\ pc' = pc /\ results' = results /\ analyzed' = analyzed
            /\ attempts' = attempts /\ store' = store]_vars
    /\ [][\A k \in KW :
            results'[k] # results[k] =>
                /\ pc[k] = "append"
                /\ \A j \in KW \ {k} : results'[j] = results[j]]_vars
    /\ [](\A c \in ChannelIds : Count(all_qualified_data, c) = ReturnedCount(c))
    /\ [](Len(all_qualified_data) =
              SumSeq([i \in 1 .. Len(order) |->
                         IF pc[order[i]] = "done" THEN Len(results[order[i]]) ELSE 0]))

\* both sessions returned the same channel among their profiles, and the
\* joined aggregate holds it twice
C30_Witness ==
    /\ orch = "joined"
    /\ Len(all_qualified_data) >= 3
    /\ \E c \in ChannelIds :
          /\ Count(all_qualified_data, c) = 2
          /\ \A k \in keywords : pc[k] = "done" /\ Count(results[k], c) = 1

====
